---- MODULE Spec2Model ----
(***************************************************************************)
(* State layer of the cw20-atomic-swap contract                            *)
(* (contracts/cw20-atomic-swap/src/state.rs).                              *)
(*                                                                         *)
(* The store is the byte-ordered key-value store the contract is given:    *)
(* a finite map from raw byte keys to raw byte values.  A byte is a number *)
(* in 0..255, a byte string a sequence of bytes.  Both tables live in this *)
(* one store, told apart only by the length-prefixed namespaces the        *)
(* buckets put in front of every key.                                      *)
(***************************************************************************)
EXTENDS Integers, Sequences, FiniteSets

\* ------------------------------------------------------------- bounds
\* Most entries (primary rows plus index entries) the store may hold.
MaxEntries == 6
\* Largest limit handed to all_swap_ids.
MaxLimit == 3

\* ---------------------------------------------------------- constants
\* b"atomic_swap"
PREFIX_SWAP == <<97, 116, 111, 109, 105, 99, 95, 115, 119, 97, 112>>
\* b"asri"
RECIPIENT_INDEX == <<97, 115, 114, 105>>
MARKER_VALUE == 0

\* ------------------------------------------------------ option, result
None == [some |-> FALSE]
Some(x) == [some |-> TRUE, val |-> x]
Ok(v) == [ok |-> TRUE, val |-> v]
Err(e) == [ok |-> FALSE, err |-> e]
\* A panic: the call does not return.  It is written as a failed result so
\* that a caller's test of .ok reads it as no success.
Panic == [ok |-> FALSE, err |-> "panic"]

Min(a, b) == IF a <= b THEN a ELSE b

\* ---------------------------------------------------------- the inputs
\* Swap ids: "a", "ab" (a proper extension of "a"), "1a", and the single
\* byte 0xFF, which is no UTF-8 text.
Ids == { <<97>>, <<97, 98>>, <<49, 97>>, <<255>> }
\* Recipients: "0", "01" (a proper extension of "0"), and the byte 0xFF.
Recipients == { <<48>>, <<48, 49>>, <<255>> }
Hashes == { <<1>>, <<2>> }
\* b"source", shortened to b"s"
Source == <<115>>
\* The ids of the rows written where the primary bucket is also written
\* alone: the ids above and the two-byte UTF-8 text "é".
BucketIds == Ids \cup { <<195, 169>> }
\* AtomicSwap { hash, recipient, source, expires, balance }: expires holds
\* its default value in every swap.
DefaultExpires == [kind |-> "never"]
DefaultBalance == [native |-> <<>>]
\* Balance::Native of one coin, 1 of the denom "a", and Balance::Cw20 of 1
\* token of the contract at the address "a".  An amount, a Uint128, is
\* held as its decimal digits.
CoinBalance == [native |-> << [denom |-> <<97>>, amount |-> <<49>>] >>]
TokenBalance == [cw20 |-> [address |-> <<97>>, amount |-> <<49>>]]
\* The balance of the swap of a hash for a recipient: coins in the second
\* swap for "0", a token in the swap for 0xFF, none in the others.
balance_of(hash, recipient) ==
    IF hash = <<2>> THEN CoinBalance
    ELSE IF recipient = <<255>> THEN TokenBalance
    ELSE DefaultBalance
\* One swap per recipient, and a second one, of another hash, for "0".
Swaps ==
    { a \in [hash : Hashes, recipient : Recipients, source : {Source},
              expires : {DefaultExpires},
              balance : {DefaultBalance, CoinBalance, TokenBalance}] :
        /\ a.hash = <<1>> \/ a.recipient = <<48>>
        /\ a.balance = balance_of(a.hash, a.recipient) }
\* The swaps created where ids are listed: one for "0", one for 0xFF.
ListSwaps == { a \in Swaps : a.hash = <<1>> /\ a.recipient /= <<48, 49>> }
\* dummy_swap() of the tests: recipient b"recip", source b"source",
\* hash b"hash", the rest AtomicSwap::default().
dummy_swap ==
    [hash |-> <<104, 97, 115, 104>>,
     recipient |-> <<114, 101, 99, 105, 112>>,
     source |-> <<115, 111, 117, 114, 99, 101>>,
     expires |-> DefaultExpires,
     balance |-> DefaultBalance]
\* Range starts: any id; "a" followed by a zero byte, which is no id and
\* sorts between "a" and "ab"; and 0xFF followed by a zero byte, which
\* sorts after every id, the id 0xFF included.
Starts == Ids \cup { <<97, 0>>, <<255, 0>> }

\* ------------------------------------------------- order on byte strings
\* Vec<u8> order of the store's keys: bytes compared left to right, a
\* proper prefix before its extensions.
\* Faulty variant: the shorter key first, bytes compared only at equal length.
BytesLess_by_length(a, b) ==
    \/ Len(a) < Len(b)
    \/ /\ Len(a) = Len(b)
       /\ \E i \in 1..Len(a) :
             a[i] < b[i] /\ \A j \in 1..(i - 1) : a[j] = b[j]

\* a sorts before b: at the first position where they differ a has the
\* smaller byte, or they differ nowhere and a is the shorter.
BytesLess(a, b) ==
    LET n == Min(Len(a), Len(b))
        d == {i \in 1..n : a[i] /= b[i]}
    IN  IF d = {} THEN Len(a) < Len(b)
        ELSE LET i == CHOOSE x \in d : \A y \in d : x <= y
             IN  a[i] < b[i]

BytesLeq(a, b) == a = b \/ BytesLess(a, b)

\* The keys of S in ascending order.
RECURSIVE SortKeys(_)
SortKeys(S) ==
    IF S = {} THEN <<>>
    ELSE LET x == CHOOSE y \in S : TRUE
             rest == SortKeys(S \ {x})
             k == Cardinality({i \in 1..Len(rest) : BytesLess(rest[i], x)})
         IN  SubSeq(rest, 1, k) \o <<x>> \o SubSeq(rest, k + 1, Len(rest))

\* ------------------------------------------------------------ namespaces
\* Two-byte big-endian length of a namespace segment; a segment of more
\* than 0xFFFF bytes panics ("only supports namespaces up to length 0xFFFF").
encode_length(ns) ==
    IF Len(ns) > 65535 THEN Panic
    ELSE << Len(ns) \div 256, Len(ns) % 256 >>

to_length_prefixed(ns) ==
    IF Len(ns) > 65535 THEN Panic ELSE encode_length(ns) \o ns

RECURSIVE to_length_prefixed_nested(_)
to_length_prefixed_nested(segs) ==
    IF segs = <<>> THEN <<>>
    ELSE IF \E i \in 1..Len(segs) : Len(segs[i]) > 65535 THEN Panic
    ELSE to_length_prefixed(Head(segs)) \o to_length_prefixed_nested(Tail(segs))

\* The namespace with its last byte raised by one, a trailing 255 turned
\* to 0 with the carry going left: the exclusive end of a prefix scan.
namespace_upper_bound(ns) ==
    LET low == {i \in 1..Len(ns) : ns[i] /= 255}
        j == IF low = {} THEN 0
             ELSE CHOOSE x \in low : \A y \in low : y <= x
    IN  [i \in 1..Len(ns) |->
            IF i < j THEN ns[i] ELSE IF i = j THEN ns[i] + 1 ELSE 0]

\* key[prefix.len()..]: slicing a key shorter than the prefix panics.
trim(prefix, key) ==
    IF Len(key) < Len(prefix) THEN Panic
    ELSE SubSeq(key, Len(prefix) + 1, Len(key))

\* bucket(PREFIX_SWAP, storage): the Primary Table's key prefix.
atomic_swaps == to_length_prefixed(PREFIX_SWAP)

\* Faulty variant: the read-only bucket opened on the index namespace.
atomic_swaps_read_index == to_length_prefixed(RECIPIENT_INDEX)

\* bucket_read(PREFIX_SWAP, storage): the same table, read-only.
atomic_swaps_read == to_length_prefixed(PREFIX_SWAP)

\* Faulty variant: the recipient appended without its length.
atomic_swaps_recipient_index_plain(rec) ==
    to_length_prefixed(RECIPIENT_INDEX) \o rec

\* Bucket::multilevel(&[RECIPIENT_INDEX, rec], storage): the key prefix of
\* the Recipient Index entries of recipient rec.
atomic_swaps_recipient_index(rec) ==
    to_length_prefixed_nested(<<RECIPIENT_INDEX, rec>>)

\* ----------------------------------------------------------------- UTF-8
Cont(b) == b >= 128 /\ b <= 191

\* Whether b is well-formed UTF-8, as String::from_utf8 decides it.
RECURSIVE Utf8Valid(_)
Utf8Valid(b) ==
    IF b = <<>> THEN TRUE
    ELSE LET n == Len(b)
             c == b[1]
             rest(k) == Utf8Valid(SubSeq(b, k + 1, n))
         IN  IF c <= 127 THEN rest(1)
             ELSE IF c >= 194 /\ c <= 223
                  THEN n >= 2 /\ Cont(b[2]) /\ rest(2)
             ELSE IF c >= 224 /\ c <= 239
                  THEN /\ n >= 3
                       /\ Cont(b[2]) /\ Cont(b[3])
                       /\ (c = 224 => b[2] >= 160)
                       /\ (c = 237 => b[2] <= 159)
                       /\ rest(3)
             ELSE IF c >= 240 /\ c <= 244
                  THEN /\ n >= 4
                       /\ Cont(b[2]) /\ Cont(b[3]) /\ Cont(b[4])
                       /\ (c = 240 => b[2] >= 144)
                       /\ (c = 244 => b[2] <= 143)
                       /\ rest(4)
             ELSE FALSE

\* String::from_utf8(k).map_err(|_| StdError::invalid_utf8(..)).  A String
\* is written as the bytes of its UTF-8 text.
from_utf8(k) == IF Utf8Valid(k) THEN Ok(k) ELSE Err("invalid_utf8")

\* ----------------------------------------------------------------- codec
\* The value codec behind Bucket::save and load: to_vec and from_slice of
\* cosmwasm_std, which write and read JSON (serde-json-wasm).  A Binary,
\* and a CanonicalAddr, which wraps one, is a JSON string holding the
\* base64 text of its bytes; a u64 is a JSON number.

\* The base64 alphabet: A-Z, a-z, 0-9, +, /.
Base64Alphabet ==
    <<65, 66, 67, 68, 69, 70, 71, 72, 73, 74, 75, 76, 77, 78, 79, 80, 81, 82, 83, 84, 85, 86, 87, 88, 89, 90, 97, 98, 99, 100, 101, 102, 103, 104, 105, 106, 107, 108, 109, 110, 111, 112, 113, 114, 115, 116, 117, 118, 119, 120, 121, 122, 48, 49, 50, 51, 52, 53, 54, 55, 56, 57, 43, 47>>

\* base64::encode: three bytes to four symbols, the last group padded
\* with "=".
to_base64(b) ==
    LET n == Len(b)
        byte(k) == IF k <= n THEN b[k] ELSE 0
        group(g) ==
            byte(3 * g + 1) * 65536 + byte(3 * g + 2) * 256 + byte(3 * g + 3)
        weight(j) ==
            IF j = 0 THEN 262144 ELSE IF j = 1 THEN 4096
            ELSE IF j = 2 THEN 64 ELSE 1
    IN  IF n = 0 THEN <<>>
        ELSE [i \in 1..(4 * ((n + 2) \div 3)) |->
                LET g == (i - 1) \div 4
                    j == (i - 1) % 4
                IN  IF (j = 2 /\ 3 * g + 2 > n) \/ (j = 3 /\ 3 * g + 3 > n)
                    THEN 61
                    ELSE Base64Alphabet[((group(g) \div weight(j)) % 64) + 1]]

\* The six bits of a base64 symbol, -1 for a byte that is none.
base64_value(c) ==
    IF c >= 65 /\ c <= 90 THEN c - 65
    ELSE IF c >= 97 /\ c <= 122 THEN c - 71
    ELSE IF c >= 48 /\ c <= 57 THEN c + 4
    ELSE IF c = 43 THEN 62
    ELSE IF c = 47 THEN 63
    ELSE -1

\* base64::decode: the symbols, then "=" signs, which may stand only in
\* the third and the fourth place of the last group of four, so that the
\* padding may be whole, partial or absent; a lone last symbol, a byte
\* outside the alphabet and left-over bits that are not zero are errors.
from_base64(s) ==
    LET n == Len(s)
        pad == IF n >= 1 /\ s[n] = 61
               THEN (IF n >= 2 /\ s[n - 1] = 61 THEN 2 ELSE 1)
               ELSE 0
        d == n - pad
        rem == d % 4
        val(k) == base64_value(s[k])
        out == (d \div 4) * 3 + (IF rem = 0 THEN 0 ELSE rem - 1)
        byte(i) ==
            LET g == (i - 1) \div 3
                j == (i - 1) % 3
                x == val(4 * g + 1 + j)
                y == val(4 * g + 2 + j)
            IN  IF j = 0 THEN x * 4 + (y \div 16)
                ELSE IF j = 1 THEN (x % 16) * 16 + (y \div 4)
                ELSE (x % 4) * 64 + y
        left == IF rem = 2 THEN val(d) % 16
                ELSE IF rem = 3 THEN val(d) % 4 ELSE 0
    IN  IF \/ \E k \in 1..d : val(k) < 0
           \/ rem = 1
           \/ (pad > 0 /\ (rem = 0 \/ rem + pad > 4))
        THEN Err("parse_err")
        ELSE IF left /= 0 THEN Err("parse_err")
        ELSE IF out = 0 THEN Ok(<<>>)
        ELSE Ok([i \in 1..out |-> byte(i)])

\* The names of the fields and of the enum variants, as they stand in the
\* JSON text.
JsonHash == <<104, 97, 115, 104>>
JsonRecipient == <<114, 101, 99, 105, 112, 105, 101, 110, 116>>
JsonSource == <<115, 111, 117, 114, 99, 101>>
JsonExpires == <<101, 120, 112, 105, 114, 101, 115>>
JsonBalance == <<98, 97, 108, 97, 110, 99, 101>>
JsonNever == <<110, 101, 118, 101, 114>>
JsonAtHeight == <<97, 116, 95, 104, 101, 105, 103, 104, 116>>
JsonAtTime == <<97, 116, 95, 116, 105, 109, 101>>
JsonNative == <<110, 97, 116, 105, 118, 101>>
JsonCw20 == <<99, 119, 50, 48>>
JsonDenom == <<100, 101, 110, 111, 109>>
JsonAmount == <<97, 109, 111, 117, 110, 116>>
JsonAddress == <<97, 100, 100, 114, 101, 115, 115>>

\* Expiration::Never {}, the default, and the two other variants.
Never == DefaultExpires
AtHeight(n) == [kind |-> "at_height", at |-> n]
AtTime(n) == [kind |-> "at_time", at |-> n]
\* Balance::Native(coins), of Coin { denom, amount }, and
\* Balance::Cw20(Cw20Coin { address, amount }); Balance::default() is
\* native, no coins.
Native(coins) == [native |-> coins]
Cw20(coin) == [cw20 |-> coin]

\* A JSON string: the base64 text between quotes.
field(b) == <<34>> \o to_base64(b) \o <<34>>

RECURSIVE digits(_)
digits(n) == IF n < 10 THEN <<48 + n>> ELSE digits(n \div 10) \o <<48 + (n % 10)>>

to_vec_u64(n) == Ok(digits(n))

\* {"never":{}}, {"at_height":n}, {"at_time":n}
to_vec_expiration(e) ==
    IF e.kind = "never"
    THEN <<123, 34>> \o JsonNever \o <<34, 58, 123, 125, 125>>
    ELSE <<123, 34>>
           \o (IF e.kind = "at_height" THEN JsonAtHeight ELSE JsonAtTime)
           \o <<34, 58>> \o digits(e.at) \o <<125>>

\* One member of a JSON object: "name":value
member(name, value) == <<34>> \o name \o <<34, 58>> \o value

\* The digit 0-9, A-F of four bits.
hex_4bit(c) == IF c <= 9 THEN 48 + c ELSE 65 + (c - 10)

\* A byte of a string as it is written: a backslash before the quote and
\* the backslash, \b \t \n \f \r, \u00XX for the other bytes below 0x20,
\* any other byte as it is.
escape(c) ==
    IF c = 34 THEN <<92, 34>>
    ELSE IF c = 92 THEN <<92, 92>>
    ELSE IF c = 8 THEN <<92, 98>>
    ELSE IF c = 9 THEN <<92, 116>>
    ELSE IF c = 10 THEN <<92, 110>>
    ELSE IF c = 12 THEN <<92, 102>>
    ELSE IF c = 13 THEN <<92, 114>>
    ELSE IF c < 32
    THEN <<92, 117, 48, 48, hex_4bit(c \div 16), hex_4bit(c % 16)>>
    ELSE <<c>>

RECURSIVE escape_str(_)
escape_str(s) ==
    IF s = <<>> THEN <<>> ELSE escape(Head(s)) \o escape_str(Tail(s))

\* A String: its escaped text between quotes.
to_vec_str(s) == <<34>> \o escape_str(s) \o <<34>>

\* A Uint128: its decimal digits between quotes.
to_vec_uint128(n) == <<34>> \o n \o <<34>>

\* {"denom":"..","amount":".."}
to_vec_coin(c) ==
    <<123>> \o member(JsonDenom, to_vec_str(c.denom))
      \o <<44>> \o member(JsonAmount, to_vec_uint128(c.amount)) \o <<125>>

\* The coins, with a comma between two of them.
RECURSIVE to_vec_coins(_)
to_vec_coins(cs) ==
    IF cs = <<>> THEN <<>>
    ELSE IF Len(cs) = 1 THEN to_vec_coin(cs[1])
    ELSE to_vec_coin(Head(cs)) \o <<44>> \o to_vec_coins(Tail(cs))

\* {"address":"..","amount":".."}
to_vec_cw20_coin(c) ==
    <<123>> \o member(JsonAddress, field(c.address))
      \o <<44>> \o member(JsonAmount, to_vec_uint128(c.amount)) \o <<125>>

\* {"native":[coin,..]} or {"cw20":coin}
to_vec_balance(b) ==
    IF "native" \in DOMAIN b
    THEN <<123>> \o member(JsonNative, <<91>> \o to_vec_coins(b.native) \o <<93>>)
           \o <<125>>
    ELSE <<123>> \o member(JsonCw20, to_vec_cw20_coin(b.cw20)) \o <<125>>

\* {"hash":"..","recipient":"..","source":"..","expires":..,"balance":..},
\* the fields in the order of the struct, no white space.  It never fails.
to_vec_swap(a) ==
    Ok(<<123>> \o member(JsonHash, field(a.hash))
         \o <<44>> \o member(JsonRecipient, field(a.recipient))
         \o <<44>> \o member(JsonSource, field(a.source))
         \o <<44>> \o member(JsonExpires, to_vec_expiration(a.expires))
         \o <<44>> \o member(JsonBalance, to_vec_balance(a.balance))
         \o <<125>>)

\* -------------------------------------------------------------- reading
\* The readers take the text v and a position i in it and return
\* [ok, pos, val]: the position after what they read and its value; or an
\* error.
Read(pos, val) == [ok |-> TRUE, pos |-> pos, val |-> val]

\* b' ' | b'\n' | b'\t' | b'\r'
is_whitespace(c) == c \in {32, 10, 9, 13}

\* The first position at or after i that holds no white space.
RECURSIVE parse_whitespace(_, _)
parse_whitespace(v, i) ==
    IF i <= Len(v) /\ is_whitespace(v[i]) THEN parse_whitespace(v, i + 1)
    ELSE i

\* The byte at position i, -1 past the end of the text.
peek(v, i) == IF i <= Len(v) THEN v[i] ELSE -1

\* The closing quote of the string whose content starts at i (0: there is
\* none): the first quote that no odd run of backslashes stands before.
RECURSIVE parse_str(_, _, _)
parse_str(v, i, escaped) ==
    IF i > Len(v) THEN 0
    ELSE IF v[i] = 34 /\ ~escaped THEN i
    ELSE parse_str(v, i + 1, v[i] = 92 /\ ~escaped)

\* A string: its raw content, which must be UTF-8 (as all ASCII is).
deserialize_str(v, i) ==
    LET p == parse_whitespace(v, i)
    IN  IF peek(v, p) /= 34 THEN Err("parse_err")
        ELSE LET e == parse_str(v, p + 1, FALSE)
                 s == SubSeq(v, p + 1, e - 1)
             IN  IF e = 0 THEN Err("parse_err")
                 ELSE IF (\E k \in 1..Len(s) : s[k] > 127) /\ ~Utf8Valid(s)
                 THEN Err("parse_err")
                 ELSE Read(e + 1, s)

\* A Binary: a string of base64 text.
deserialize_binary(v, i) ==
    LET s == deserialize_str(v, i)
    IN  IF ~s.ok THEN s
        ELSE LET b == from_base64(s.val)
             IN  IF ~b.ok THEN b ELSE Read(s.pos, b.val)

\* The last position of the run of digits that starts at i.
RECURSIVE digits_end(_, _)
digits_end(v, i) ==
    IF i + 1 <= Len(v) /\ v[i + 1] >= 48 /\ v[i + 1] <= 57
    THEN digits_end(v, i + 1)
    ELSE i

RECURSIVE digits_value(_)
digits_value(v) ==
    IF Len(v) = 1 THEN v[1] - 48
    ELSE 10 * digits_value(SubSeq(v, 1, Len(v) - 1)) + (v[Len(v)] - 48)

\* The digits of u64::MAX.
U64MaxDigits ==
    <<49, 56, 52, 52, 54, 55, 52, 52, 48, 55, 51, 55, 48, 57, 53, 53, 49, 54, 49, 53>>

\* A u64: a single 0, or digits that start with 1-9 and stay within u64.
deserialize_u64(v, i) ==
    LET p == parse_whitespace(v, i)
        c == peek(v, p)
    IN  IF c = 48 THEN Read(p + 1, 0)
        ELSE IF c >= 49 /\ c <= 57
        THEN LET e == digits_end(v, p)
                 ds == SubSeq(v, p, e)
             IN  IF \/ Len(ds) > Len(U64MaxDigits)
                    \/ (Len(ds) = Len(U64MaxDigits) /\ BytesLess(U64MaxDigits, ds))
                 THEN Err("parse_err")
                 ELSE Read(e + 1, digits_value(ds))
        ELSE Err("parse_err")

\* The digits of u128::MAX.
U128MaxDigits ==
    <<51, 52, 48, 50, 56, 50, 51, 54, 54, 57, 50, 48, 57, 51, 56, 52, 54, 51, 52, 54, 51, 51, 55, 52, 54, 48, 55, 52, 51, 49, 55, 54, 56, 50, 49, 49, 52, 53, 53>>

\* The digits without their leading zeros, one digit at least.
RECURSIVE strip_zeros(_)
strip_zeros(ds) ==
    IF Len(ds) > 1 /\ ds[1] = 48 THEN strip_zeros(Tail(ds)) ELSE ds

\* str::parse::<u128>: a "+" or none, then digits, one at least, leading
\* zeros allowed, of a value within u128.
parse_u128(s) ==
    LET ds == IF s /= <<>> /\ s[1] = 43 THEN Tail(s) ELSE s
        n == strip_zeros(ds)
    IN  IF ds = <<>> \/ (\E k \in 1..Len(ds) : ds[k] < 48 \/ ds[k] > 57)
        THEN Err("parse_err")
        ELSE IF \/ Len(n) > Len(U128MaxDigits)
                \/ (Len(n) = Len(U128MaxDigits) /\ BytesLess(U128MaxDigits, n))
        THEN Err("parse_err")
        ELSE Ok(n)

\* A Uint128: a string that holds a u128.
deserialize_uint128(v, i) ==
    LET s == deserialize_str(v, i)
    IN  IF ~s.ok THEN s
        ELSE LET n == parse_u128(s.val)
             IN  IF ~n.ok THEN n ELSE Read(s.pos, n.val)

\* The first position at or after i that holds "," "}" or "]" (0: none).
RECURSIVE chomp(_, _)
chomp(v, i) ==
    IF i > Len(v) THEN 0
    ELSE IF v[i] \in {44, 125, 93} THEN i
    ELSE chomp(v, i + 1)

RECURSIVE ignored_any(_, _)
RECURSIVE ignored_seq(_, _, _)
RECURSIVE visit_map(_, _, _, _, _)
RECURSIVE visit_key(_, _, _, _, _)
RECURSIVE visit_value(_, _, _, _, _)
RECURSIVE next_member(_, _, _, _, _)
RECURSIVE skip_member(_, _, _, _)
RECURSIVE deserialize_value(_, _, _)
RECURSIVE deserialize_coins(_, _, _, _)
RECURSIVE next_coin(_, _, _, _)

\* The value of a field the struct does not have: a string, an array or
\* an object of such values is read, anything else is passed over up to
\* the next "," "}" or "]".  The position after the value, 0 on an error.
ignored_any(v, i) ==
    LET p == parse_whitespace(v, i)
        c == peek(v, p)
    IN  IF c = -1 THEN 0
        ELSE IF c = 34
        THEN LET s == deserialize_str(v, p) IN IF s.ok THEN s.pos ELSE 0
        ELSE IF c = 91 THEN ignored_seq(v, p + 1, TRUE)
        ELSE IF c = 123
        THEN LET m == visit_map(v, p + 1, TRUE, <<>>, {})
             IN  IF m.ok THEN m.pos ELSE 0
        ELSE IF c \in {44, 125, 93} THEN 0
        ELSE chomp(v, p)

\* The elements of an array after its "[", up to and with its "]".
ignored_seq(v, i, first) ==
    LET p == parse_whitespace(v, i)
        c == peek(v, p)
        q == IF c = 44 THEN parse_whitespace(v, p + 1) ELSE p
    IN  IF c = -1 THEN 0
        ELSE IF c = 93 THEN p + 1
        ELSE IF c /= 44 /\ ~first THEN 0
        ELSE IF peek(v, q) \in {-1, 93} THEN 0
        ELSE LET e == ignored_any(v, q)
             IN  IF e = 0 THEN 0
                 ELSE ignored_seq(v, e, first /\ c = 44)

\* The name of a field as the model's records spell it.
field_name(k) ==
    IF k = JsonHash THEN "hash"
    ELSE IF k = JsonRecipient THEN "recipient"
    ELSE IF k = JsonSource THEN "source"
    ELSE IF k = JsonExpires THEN "expires"
    ELSE IF k = JsonBalance THEN "balance"
    ELSE IF k = JsonDenom THEN "denom"
    ELSE IF k = JsonAmount THEN "amount"
    ELSE "address"

\* The members of an object after its "{", up to and with its "}": the
\* fields in `known` are read into acc, each at most once, in any order;
\* the value of any other key is ignored.
visit_map(v, i, first, acc, known) ==
    LET p == parse_whitespace(v, i)
        c == peek(v, p)
        q == IF first THEN p ELSE parse_whitespace(v, p + 1)
    IN  IF c = 125 THEN Read(p + 1, acc)
        ELSE IF c = -1 \/ (~first /\ c /= 44) THEN Err("parse_err")
        ELSE visit_key(v, q, deserialize_str(v, q), acc, known)

\* The key k of a member, read at q: a string, then ":".
visit_key(v, q, k, acc, known) ==
    IF peek(v, q) /= 34 \/ ~k.ok THEN Err("parse_err")
    ELSE visit_value(v, parse_whitespace(v, k.pos), k.val, acc, known)

\* The value of the member named k, after the ":" at r: a field that was
\* read before is an error.
visit_value(v, r, k, acc, known) ==
    IF peek(v, r) /= 58 THEN Err("parse_err")
    ELSE IF k \in known
    THEN IF field_name(k) \in DOMAIN acc THEN Err("parse_err")
         ELSE next_member(v, deserialize_value(k, v, r + 1), field_name(k),
                          acc, known)
    ELSE skip_member(v, ignored_any(v, r + 1), acc, known)

\* The value x of the field n goes into acc, and the members go on.
next_member(v, x, n, acc, known) ==
    IF ~x.ok THEN Err("parse_err")
    ELSE visit_map(v, x.pos, FALSE,
                   [m \in DOMAIN acc \cup {n} |->
                      IF m = n THEN x.val ELSE acc[m]],
                   known)

\* An ignored value ended at e, and the members go on.
skip_member(v, e, acc, known) ==
    IF e = 0 THEN Err("parse_err") ELSE visit_map(v, e, FALSE, acc, known)

\* An enum written as an object of one member, {"variant":value}: the
\* variant's name and the position of its value.
deserialize_variant(v, i) ==
    LET p == parse_whitespace(v, i)
    IN  IF peek(v, p) /= 123 THEN Err("parse_err")
        ELSE LET k == deserialize_str(v, p + 1)
             IN  IF ~k.ok THEN Err("parse_err")
                 ELSE LET r == parse_whitespace(v, k.pos)
                      IN  IF peek(v, r) /= 58 THEN Err("parse_err")
                          ELSE Read(r + 1, k.val)

\* The "}" that ends an enum, after its value x.
end_variant(v, x) ==
    IF ~x.ok THEN Err("parse_err")
    ELSE LET e == parse_whitespace(v, x.pos)
         IN  IF peek(v, e) = 125 THEN Read(e + 1, x.val) ELSE Err("parse_err")

\* Expiration: {"never":{..}}, {"at_height":n} or {"at_time":n}.
deserialize_expiration(v, i) ==
    LET k == deserialize_variant(v, i)
    IN  IF ~k.ok THEN k
        ELSE IF k.val = JsonNever
        THEN LET q == parse_whitespace(v, k.pos)
                 m == visit_map(v, q + 1, TRUE, <<>>, {})
             IN  IF peek(v, q) /= 123 THEN Err("parse_err")
                 ELSE end_variant(v, IF m.ok THEN Read(m.pos, Never) ELSE m)
        ELSE IF k.val \in {JsonAtHeight, JsonAtTime}
        THEN LET n == deserialize_u64(v, k.pos)
             IN  end_variant(v,
                    IF ~n.ok THEN n
                    ELSE Read(n.pos, IF k.val = JsonAtHeight
                                     THEN AtHeight(n.val) ELSE AtTime(n.val)))
        ELSE Err("parse_err")

CoinFields == {JsonDenom, JsonAmount}
Cw20CoinFields == {JsonAddress, JsonAmount}

\* A struct read from the object m: each of its fields must be there.
all_fields(m, names) ==
    IF ~m.ok THEN m
    ELSE IF DOMAIN m.val /= names THEN Err("parse_err")
    ELSE m

\* Coin { denom, amount } and Cw20Coin { address, amount }: an object with
\* each of the fields in `known`, named `names` in the model, once.
deserialize_struct(v, i, known, names) ==
    LET p == parse_whitespace(v, i)
    IN  IF peek(v, p) /= 123 THEN Err("parse_err")
        ELSE all_fields(visit_map(v, p + 1, TRUE, <<>>, known), names)

deserialize_coin(v, i) ==
    deserialize_struct(v, i, CoinFields, {"denom", "amount"})

deserialize_cw20_coin(v, i) ==
    deserialize_struct(v, i, Cw20CoinFields, {"address", "amount"})

\* Vec<Coin>: the coins of an array after its "[", up to and with its
\* "]", a comma before each coin but the first.
deserialize_coins(v, i, first, acc) ==
    LET p == parse_whitespace(v, i)
        c == peek(v, p)
        q == IF c = 44 THEN parse_whitespace(v, p + 1) ELSE p
    IN  IF c = -1 THEN Err("parse_err")
        ELSE IF c = 93 THEN Read(p + 1, acc)
        ELSE IF c /= 44 /\ ~first THEN Err("parse_err")
        ELSE IF peek(v, q) \in {-1, 93} THEN Err("parse_err")
        ELSE next_coin(v, deserialize_coin(v, q), first /\ c = 44, acc)

\* The coin x goes after those in acc, and the array goes on.
next_coin(v, x, first, acc) ==
    IF ~x.ok THEN Err("parse_err")
    ELSE deserialize_coins(v, x.pos, first, Append(acc, x.val))

\* The value x of a variant of Balance, as the balance it makes.
native_of(x) == IF ~x.ok THEN x ELSE Read(x.pos, Native(x.val))
cw20_of(x) == IF ~x.ok THEN x ELSE Read(x.pos, Cw20(x.val))

\* Balance: {"native":[coin,..]} or {"cw20":coin}.
deserialize_balance(v, i) ==
    LET k == deserialize_variant(v, i)
    IN  IF ~k.ok THEN k
        ELSE IF k.val = JsonNative
        THEN LET q == parse_whitespace(v, k.pos)
             IN  IF peek(v, q) /= 91 THEN Err("parse_err")
                 ELSE end_variant(v,
                        native_of(deserialize_coins(v, q + 1, TRUE, <<>>)))
        ELSE IF k.val = JsonCw20
        THEN end_variant(v, cw20_of(deserialize_cw20_coin(v, k.pos)))
        ELSE Err("parse_err")

\* The value of the field named k of an AtomicSwap, a Coin or a Cw20Coin.
deserialize_value(k, v, i) ==
    IF k \in {JsonHash, JsonRecipient, JsonSource, JsonAddress}
    THEN deserialize_binary(v, i)
    ELSE IF k = JsonExpires THEN deserialize_expiration(v, i)
    ELSE IF k = JsonBalance THEN deserialize_balance(v, i)
    ELSE IF k = JsonDenom THEN deserialize_str(v, i)
    ELSE deserialize_uint128(v, i)

SwapFields == {JsonHash, JsonRecipient, JsonSource, JsonExpires, JsonBalance}

\* AtomicSwap::deserialize and the end of the text: an object with each of
\* the five fields once, white space allowed around every token, nothing
\* but white space after it.
deserialize_swap(v) ==
    LET p == parse_whitespace(v, 1)
        m == visit_map(v, p + 1, TRUE, <<>>, SwapFields)
    IN  IF peek(v, p) /= 123 \/ ~m.ok THEN Err("parse_err")
        ELSE IF DOMAIN m.val /= {"hash", "recipient", "source", "expires", "balance"}
        THEN Err("parse_err")
        ELSE IF parse_whitespace(v, m.pos) <= Len(v) THEN Err("parse_err")
        ELSE Ok(m.val)

\* The texts of the swaps above, each with what deserialize_swap reads
\* from it, worked out once.
SwapTexts == {to_vec_swap(a).val : a \in Swaps \cup {dummy_swap}}
ReadSwapTexts == [v \in SwapTexts |-> deserialize_swap(v)]

\* from_slice::<AtomicSwap>: deserialize_swap of the text, read from the
\* table when the text is one of those.
from_slice_swap(v) ==
    IF v \in SwapTexts THEN ReadSwapTexts[v] ELSE deserialize_swap(v)

\* from_slice::<u64>
from_slice_u64(v) ==
    LET n == deserialize_u64(v, 1)
    IN  IF ~n.ok THEN Err("parse_err")
        ELSE IF parse_whitespace(v, n.pos) <= Len(v) THEN Err("parse_err")
        ELSE Ok(n.val)

\* ------------------------------------------------------------- the store
EmptyStorage == [k \in {} |-> <<>>]

storage_set(st, key, value) ==
    [k \in DOMAIN st \cup {key} |-> IF k = key THEN value ELSE st[k]]

storage_get(st, key) == IF key \in DOMAIN st THEN Some(st[key]) ELSE None

\* Storage::range(Some(start), Some(end), Order::Ascending): the keys k with
\* start <= k < end, ascending.
storage_range(st, start, end) ==
    SortKeys({k \in DOMAIN st : BytesLeq(start, k) /\ BytesLess(k, end)})

\* Faulty variant: with no start the scan begins at the first key of the store.
range_from_store_start(st, namespace, start) ==
    LET from == IF start.some THEN namespace \o start.val ELSE <<>>
    IN  storage_range(st, from, namespace_upper_bound(namespace))

\* The full keys range_with_prefix scans: from namespace ++ start (the
\* namespace itself with no start) up to the namespace's upper bound.
range_keys(st, namespace, start) ==
    LET from == IF start.some THEN namespace \o start.val ELSE namespace
    IN  storage_range(st, from, namespace_upper_bound(namespace))

\* The map of range_with_prefix over the keys it scans: each key with the
\* namespace cut off, and its value.
pairs(st, namespace, keys) ==
    [i \in 1..Len(keys) |-> <<trim(namespace, keys[i]), st[keys[i]]>>]

\* range_with_prefix(storage, namespace, start, None, Order::Ascending): the
\* (key, value) pairs of one namespace, the namespace cut off each key.
range_with_prefix(st, namespace, start) ==
    pairs(st, namespace, range_keys(st, namespace, start))

\* Faulty variant: a key that is already there is refused.
bucket_save_new(st, prefix, key, bytes) ==
    IF ~bytes.ok THEN [storage |-> st, res |-> bytes]
    ELSE IF prefix \o key \in DOMAIN st
    THEN [storage |-> st, res |-> Err("already_exists")]
    ELSE [storage |-> storage_set(st, prefix \o key, bytes.val),
          res |-> Ok(<<>>)]

\* Bucket::save(key, data): serialize, then set prefix ++ key.
bucket_save(st, prefix, key, bytes) ==
    IF ~bytes.ok THEN [storage |-> st, res |-> bytes]
    ELSE [storage |-> storage_set(st, prefix \o key, bytes.val),
          res |-> Ok(<<>>)]

\* ------------------------------------------------------------ operations
\* atomic_swaps(storage).save(&key, a)
save_swap(st, key, a) == bucket_save(st, atomic_swaps, key, to_vec_swap(a))

\* Faulty variant: the marker counts the writes of its entry.
save_marker_counting(st, rec, key) ==
    LET old == storage_get(st, atomic_swaps_recipient_index(rec) \o key)
        n == IF old.some THEN from_slice_u64(old.val).val + 1 ELSE MARKER_VALUE
    IN  IF Len(rec) > 65535 THEN [storage |-> st, res |-> Panic]
        ELSE bucket_save(st, atomic_swaps_recipient_index(rec), key,
                         to_vec_u64(n))

\* atomic_swaps_recipient_index(storage, rec).save(key, &MARKER_VALUE)
save_marker(st, rec, key) ==
    IF Len(rec) > 65535 THEN [storage |-> st, res |-> Panic]
    ELSE bucket_save(st, atomic_swaps_recipient_index(rec), key,
                     to_vec_u64(MARKER_VALUE))

\* Faulty variant: the index entry of the row that is replaced is removed.
create_moving_index(st, key, a) ==
    LET old == storage_get(st, atomic_swaps \o key)
        p == save_swap(st, key, a)
        m == save_marker(p.storage, a.recipient, key)
        gone == IF old.some /\ from_slice_swap(old.val).ok
                THEN {atomic_swaps_recipient_index(
                          from_slice_swap(old.val).val.recipient) \o key}
                       \ {atomic_swaps_recipient_index(a.recipient) \o key}
                ELSE {}
    IN  [storage |-> [k \in DOMAIN m.storage \ gone |-> m.storage[k]],
         res |-> m.res]

\* Faulty variant: the index entry is never written.
create_without_index(st, key, a) == save_swap(st, key, a)

create_atomic_swap(st, key, a) ==
    LET p == save_swap(st, key, a)
    IN  IF ~p.res.ok THEN p
        ELSE save_marker(p.storage, a.recipient, key)

\* Faulty variant: a missing row is read as the default swap.
load_or_default(st, key) ==
    LET v == storage_get(st, atomic_swaps_read \o key)
    IN  IF v.some THEN from_slice_swap(v.val)
        ELSE Ok([hash |-> <<>>, recipient |-> <<>>, source |-> <<>>,
                 expires |-> DefaultExpires, balance |-> DefaultBalance])

\* Faulty variant: the index entry is written before the row.
create_writes_index_first(st, key, a) ==
    LET m == save_marker(st, a.recipient, key)
    IN  IF ~m.res.ok THEN <<>>
        ELSE LET p == save_swap(m.storage, key, a)
             IN  IF ~p.res.ok THEN <<m.storage>>
                 ELSE <<m.storage, p.storage>>

\* The stores one create_atomic_swap call passes through, one after each
\* write it applies, in program order: the save of the row, then, unless
\* that save failed (the ? returns its error), the save of the marker.
create_writes(st, key, a) ==
    LET p == save_swap(st, key, a)
    IN  IF ~p.res.ok THEN <<>>
        ELSE LET m == save_marker(p.storage, a.recipient, key)
             IN  IF ~m.res.ok THEN <<p.storage>>
                 ELSE <<p.storage, m.storage>>

\* atomic_swaps_read(storage).load(key)
load(st, key) ==
    LET v == storage_get(st, atomic_swaps_read \o key)
    IN  IF v.some THEN from_slice_swap(v.val) ELSE Err("not_found")

\* ------------------------------------------------------------- listing
\* Faulty variant: an item that failed is skipped.
collect_skipping(items) ==
    LET good == {i \in 1..Len(items) : items[i].ok}
        nth(n) == CHOOSE i \in good : Cardinality({j \in good : j < i}) = n - 1
    IN  Ok([n \in 1..Cardinality(good) |-> items[nth(n)].val])

\* Faulty variant: a sequence of no items is an error.
collect_some(items) ==
    IF items = <<>> THEN Err("not_found")
    ELSE IF \E i \in 1..Len(items) : ~items[i].ok
    THEN items[CHOOSE i \in 1..Len(items) :
                 ~items[i].ok /\ \A j \in 1..(i - 1) : items[j].ok]
    ELSE Ok([i \in 1..Len(items) |-> items[i].val])

\* collect::<StdResult<Vec<_>>>(): the first error, else all the values.
collect(items) ==
    IF \E i \in 1..Len(items) : ~items[i].ok
    THEN items[CHOOSE i \in 1..Len(items) :
                 ~items[i].ok /\ \A j \in 1..(i - 1) : items[j].ok]
    ELSE Ok([i \in 1..Len(items) |-> items[i].val])

\* .take(limit)
take(items, limit) == SubSeq(items, 1, Min(limit, Len(items)))

\* prefixed_read(PREFIX_SWAP, storage).range(start, None, Ascending), which
\* is range_with_prefix, then take, map and collect.  The iterator is
\* lazy: the items are taken, trimmed and converted one by one, and the
\* first that panics (a key shorter than the namespace) or fails ends the
\* call.
all_swap_ids(st, start, limit) ==
    LET keys == range_keys(st, atomic_swaps_read, start)
        kvs == take(pairs(st, atomic_swaps_read, keys), limit)
    IN  collect([i \in 1..Len(kvs) |->
                    IF Len(keys[i]) < Len(atomic_swaps_read) THEN Panic
                    ELSE from_utf8(kvs[i][1])])

\* atomic_swaps_recipient_index(storage, rec).range(None, None, Ascending)
\* mapped to its keys and collected: the ids listed under one recipient.
recipient_index_ids(st, rec) ==
    LET ns == atomic_swaps_recipient_index(rec)
        keys == range_keys(st, ns, None)
        kvs == pairs(st, ns, keys)
        item(kv) == LET m == from_slice_u64(kv[2])
                    IN  IF m.ok THEN Ok(kv[1]) ELSE m
    IN  IF Len(rec) > 65535 THEN Panic
        ELSE collect([i \in 1..Len(kvs) |->
                        IF Len(keys[i]) < Len(ns) THEN Panic
                        ELSE item(kvs[i])])

\* ----------------------------------------------------------------- state
VARIABLES
    storage,   \* the store: raw key -> raw value
    created,   \* history: the (recipient, id) pairs create was called with
    last       \* the last operation with its arguments and its result

vars == <<storage, created, last>>

Init ==
    /\ storage = EmptyStorage
    /\ created = {}
    /\ last = [op |-> "none"]

\* The step of a call that returned r, the store and the result.
Created(key, a, r) ==
    /\ Cardinality(DOMAIN r.storage) <= MaxEntries
    /\ storage' = r.storage
    /\ created' = IF r.res.ok THEN created \cup {<<a.recipient, key>>}
                  ELSE created
    /\ last' = [op |-> "create", key |-> key, swap |-> a, res |-> r.res]

Create(key, a) == Created(key, a, create_atomic_swap(storage, key, a))

ListIds(start, limit) ==
    /\ last' = [op |-> "all_swap_ids", start |-> start, limit |-> limit,
                res |-> all_swap_ids(storage, start, limit)]
    /\ UNCHANGED <<storage, created>>

Load(key) ==
    /\ last' = [op |-> "load", key |-> key, res |-> load(storage, key)]
    /\ UNCHANGED <<storage, created>>

ListRecipient(rec) ==
    /\ last' = [op |-> "recipient_index", rec |-> rec,
                res |-> recipient_index_ids(storage, rec)]
    /\ UNCHANGED <<storage, created>>

Saved(key, a, r) ==
    /\ Cardinality(DOMAIN r.storage) <= MaxEntries
    /\ storage' = r.storage
    /\ last' = [op |-> "save", key |-> key, swap |-> a, res |-> r.res]
    /\ UNCHANGED created

\* atomic_swaps(storage).save(key, a): a row written through the primary
\* bucket alone, as the listing test writes its rows.
SavePrimary(key, a) == Saved(key, a, save_swap(storage, key, a))

StartOpts == {None} \cup {Some(s) : s \in Starts}

\* The lookups leave the store as it is, so each specification carries the
\* lookups its properties read.  Creates and the lookup by recipient:
Next ==
    \/ \E key \in Ids, a \in Swaps : Create(key, a)
    \/ \E rec \in Recipients : ListRecipient(rec)

Spec == Init /\ [][Next]_vars

\* Creates and the listing of ids:
NextList ==
    \/ \E key \in Ids, a \in ListSwaps : Create(key, a)
    \/ \E start \in StartOpts, limit \in 0..MaxLimit : ListIds(start, limit)

SpecList == Init /\ [][NextList]_vars

\* The same, with rows also written through the primary bucket alone:
NextBucket ==
    \/ \E key \in BucketIds : Create(key, dummy_swap)
    \/ \E key \in BucketIds : SavePrimary(key, dummy_swap)
    \/ \E start \in StartOpts, limit \in 0..MaxLimit : ListIds(start, limit)

SpecBucket == Init /\ [][NextBucket]_vars

\* Creates and all the lookups by id, single and listed:
NextFrame ==
    \/ \E key \in Ids, a \in ListSwaps : Create(key, a)
    \/ \E key \in Ids : Load(key)
    \/ \E start \in StartOpts, limit \in 0..MaxLimit : ListIds(start, limit)

SpecFrame == Init /\ [][NextFrame]_vars

\* ------------------------------------------------- reading the tables
HasPrefix(k, p) == Len(k) >= Len(p) /\ SubSeq(k, 1, Len(p)) = p

\* The ids of the Primary Table's rows.
PrimaryIds(st) ==
    {trim(atomic_swaps, k) : k \in {x \in DOMAIN st : HasPrefix(x, atomic_swaps)}}

\* The namespace all Recipient Index keys start with.
IndexNamespace == to_length_prefixed(RECIPIENT_INDEX)

\* A Recipient Index key read back as <<recipient, id>>: after the
\* namespace, two bytes of length, the recipient, then the id.
IndexPair(k) ==
    LET t == trim(IndexNamespace, k)
        n == t[1] * 256 + t[2]
    IN  <<SubSeq(t, 3, 2 + n), SubSeq(t, 3 + n, Len(t))>>

IndexEntries(st) ==
    {IndexPair(k) : k \in {x \in DOMAIN st : HasPrefix(x, IndexNamespace)}}

\* Byte-lexicographic order, as the textbook states it: at the first
\* position where a and b differ a holds the smaller byte, or a is a
\* proper prefix of b.
LexLess(a, b) ==
    \E i \in 1..Len(b) :
        /\ \A j \in 1..(i - 1) : j <= Len(a) /\ a[j] = b[j]
        /\ (i > Len(a) \/ a[i] < b[i])

Ascending(ids) ==
    \A i \in 1..Len(ids), j \in 1..Len(ids) : i < j => LexLess(ids[i], ids[j])

Elements(seq) == {seq[i] : i \in 1..Len(seq)}

Count(seq, x) == Cardinality({i \in 1..Len(seq) : seq[i] = x})

\* ================================================================ claims

\* C1: after any sequence of create_atomic_swap calls, every Primary Table
\* row (K, s) has a Recipient Index entry under (s.recipient, K), and every
\* Recipient Index entry (r, K) has a Primary Table row at K.
C1_IndexCoversPrimary ==
    /\ \A K \in PrimaryIds(storage) :
          LET s == load(storage, K)
          IN  s.ok /\ <<s.val.recipient, K>> \in IndexEntries(storage)
    /\ \A e \in IndexEntries(storage) : e[2] \in PrimaryIds(storage)
    /\ \A k \in DOMAIN storage :
          HasPrefix(k, atomic_swaps) \/ HasPrefix(k, IndexNamespace)

\* C1 witness: two rows after creates, one of them created twice under
\* different recipients.
C1_Witness ==
    /\ last.op = "create"
    /\ Cardinality(PrimaryIds(storage)) = 2
    /\ Cardinality(IndexEntries(storage)) = 3

\* C2 (as claimed): every Recipient Index entry (r, K) has r equal to the
\* recipient of the swap now stored at K, so each id is listed under
\* exactly one recipient.
C2_IndexMatchesPrimary ==
    \A e \in IndexEntries(storage) :
        LET s == load(storage, e[2])
        IN  s.ok /\ s.val.recipient = e[1]

\* C3: after create_atomic_swap(K, s) returns Ok, loading K returns s and
\* the Recipient Index range of s.recipient holds K exactly once.
C3_CreateThenLoad ==
    (last.op = "create" /\ last.res.ok) =>
        /\ load(storage, last.key) = Ok(last.swap)
        /\ LET ids == recipient_index_ids(storage, last.swap.recipient)
           IN  ids.ok /\ Count(ids.val, last.key) = 1

\* C3 witness: a create that replaced a row of another recipient and of
\* another hash, with a second id listed under the new recipient.
C3_Witness ==
    /\ last.op = "create" /\ last.res.ok
    /\ last.swap.hash = <<2>>
    /\ \E r \in Recipients \ {last.swap.recipient} :
          <<r, last.key>> \in IndexEntries(storage)
    /\ \E K \in Ids \ {last.key} :
          <<last.swap.recipient, K>> \in IndexEntries(storage)

\* C7 (as claimed): the ascending Recipient Index range of recipient r
\* returns exactly the ids created with recipient r, in ascending byte
\* order, and no id that was created under any other recipient.
C7_RecipientListing ==
    \A r \in Recipients :
        LET ids == recipient_index_ids(storage, r)
        IN  /\ ids.ok
            /\ Ascending(ids.val)
            /\ Elements(ids.val) = {K \in Ids : <<r, K>> \in created}
            /\ \A K \in Elements(ids.val) :
                  ~ \E r2 \in Recipients \ {r} : <<r2, K>> \in created

\* ------------------------------------------------------ listing claims
\* The ids at or after start; all of them when start is absent.
IdsFrom(st, start) ==
    {K \in PrimaryIds(st) :
        ~start.some \/ start.val = K \/ LexLess(start.val, K)}

\* The ids a listing covers: the first `limit` ids at or after start.
Window(st, start, limit) ==
    {K \in IdsFrom(st, start) :
        Cardinality({J \in IdsFrom(st, start) : LexLess(J, K)}) < limit}

Smallest(S) == CHOOSE K \in S : \A J \in S \ {K} : LexLess(K, J)

IsListing == last.op = "all_swap_ids"

\* C4 (as claimed): all_swap_ids(Some(start), limit) never returns the id
\* equal to start, and with start absent the scan begins at the smallest id.
C4_StartExcluded ==
    (IsListing /\ last.res.ok) =>
        IF last.start.some
        THEN last.start.val \notin Elements(last.res.val)
        ELSE (last.limit >= 1 /\ PrimaryIds(storage) /= {}) =>
                last.res.val[1] = Smallest(PrimaryIds(storage))

\* The two pages of C5: the first N ids, and the listing of M ids from the
\* last id of a first page p1.
Page1(N) == all_swap_ids(storage, None, N)
Page2(p1, M) == all_swap_ids(storage, Some(p1[Len(p1)]), M)

\* C5 (as claimed): for N >= 1, M >= 0, page1 = all_swap_ids(None, N)
\* followed by page2 = all_swap_ids(Some(last id of page1), M) is
\* all_swap_ids(None, N + M).
C5_PagesCompose ==
    \A N \in 1..MaxLimit :
        LET p1 == Page1(N)
        IN  (p1.ok /\ p1.val /= <<>>) =>
                \A M \in 0..MaxLimit :
                    LET p2 == Page2(p1.val, M)
                    IN  p2.ok => all_swap_ids(storage, None, N + M)
                                    = Ok(p1.val \o p2.val)

\* C6: all_swap_ids(None, limit) returns the first min(limit, rows) ids in
\* strictly ascending byte-lexicographic order, an id before every id it is
\* a proper prefix of, whatever wrote the rows and in whatever order.  (A
\* listing returns ids as text: it succeeds when the ids are UTF-8.)
C6_AscendingListing ==
    \A limit \in 0..MaxEntries :
        LET r == all_swap_ids(storage, None, limit)
            P == PrimaryIds(storage)
        IN  /\ (\A K \in P : Utf8Valid(K)) => r.ok
            /\ r.ok =>
                /\ Len(r.val) = Min(limit, Cardinality(P))
                /\ Ascending(r.val)
                /\ Elements(r.val) \subseteq P
                /\ \A K \in P \ Elements(r.val), J \in Elements(r.val) :
                      LexLess(J, K)
                /\ \A i \in 1..Len(r.val), j \in 1..Len(r.val) :
                      (/\ Len(r.val[i]) < Len(r.val[j])
                       /\ HasPrefix(r.val[j], r.val[i])) => i < j

\* C6 witness: rows "a", "ab", "é", "1a", two of them written through the
\* primary bucket alone, listed up to the limit as "1a", "a", "ab".
C6_Witness ==
    /\ IsListing /\ ~last.start.some /\ last.limit = 3
    /\ last.res = Ok(<< <<49, 97>>, <<97>>, <<97, 98>> >>)
    /\ <<195, 169>> \in PrimaryIds(storage)
    /\ Cardinality(IndexEntries(storage)) = 2

CreatedIds == {p[2] : p \in created}

\* C8: all_swap_ids returns only ids of Primary Table rows, never a key of
\* the Recipient Index or a piece of one, and with a limit that covers all
\* rows it returns as many ids as distinct ids were created.
C8_NoForeignKeys ==
    /\ (IsListing /\ last.res.ok) => Elements(last.res.val) \subseteq CreatedIds
    /\ LET r == all_swap_ids(storage, None, MaxEntries)
       IN  /\ (\A K \in CreatedIds : Utf8Valid(K)) => r.ok
           /\ r.ok => /\ Len(r.val) = Cardinality(CreatedIds)
                      /\ Elements(r.val) = CreatedIds

\* C8 witness: three ids created, index entries under both recipients, and
\* a listing that returned the three ids.
C8_Witness ==
    /\ IsListing /\ ~last.start.some /\ last.limit = 3
    /\ last.res.ok /\ Len(last.res.val) = 3
    /\ Cardinality(CreatedIds) = 3
    /\ {p[1] : p \in IndexEntries(storage)} = {<<48>>, <<255>>}

\* C9 (as claimed): all_swap_ids fails with the invalid-UTF-8 error
\* whenever any key of the Primary Table is not UTF-8, whatever start and
\* limit are.
C9_AnyInvalidKeyFails ==
    (IsListing /\ \E K \in PrimaryIds(storage) : ~Utf8Valid(K)) =>
        last.res = Err("invalid_utf8")

\* C9 (amended): all_swap_ids fails with the invalid-UTF-8 error, returning
\* no ids at all, exactly when one of the ids it covers (the first `limit`
\* ids at or after start) is not UTF-8; such an id is never skipped, and an
\* invalid id before start or past the first `limit` ids does not fail
\* the call.
C9_InvalidKeyInRangeFails ==
    IsListing =>
        IF \E K \in Window(storage, last.start, last.limit) : ~Utf8Valid(K)
        THEN last.res = Err("invalid_utf8")
        ELSE last.res.ok

\* C9 witness: rows "a", "ab" and 0xFF.  The listing from the start
\* 0xFF 0x00, which the id 0xFF sorts before, succeeded; on the same rows
\* the listing from "a" that covers the three ids fails and the listing of
\* the first id alone succeeds.
C9_Witness ==
    /\ IsListing /\ last.start = Some(<<255, 0>>) /\ last.limit = 3
    /\ PrimaryIds(storage) = {<<97>>, <<97, 98>>, <<255>>}
    /\ last.res = Ok(<<>>)
    /\ Window(storage, Some(<<97>>), 3) = PrimaryIds(storage)
    /\ all_swap_ids(storage, Some(<<97>>), 3) = Err("invalid_utf8")
    /\ all_swap_ids(storage, None, 1) = Ok(<< <<97>> >>)

\* C11: listing a store with no Primary Table rows returns the empty
\* sequence and no error, for every start and every limit, limit 0
\* included.
C11_EmptyListing ==
    /\ (IsListing /\ PrimaryIds(storage) = {}) => last.res = Ok(<<>>)
    /\ PrimaryIds(storage) = {} =>
          \A start \in StartOpts, limit \in 0..MaxLimit :
              all_swap_ids(storage, start, limit) = Ok(<<>>)

\* C11 witness: a listing of the store without rows, from the start 0xFF
\* and with the largest limit, returned the empty sequence.
C11_Witness ==
    /\ IsListing /\ PrimaryIds(storage) = {}
    /\ last.start = Some(<<255>>) /\ last.limit = MaxLimit
    /\ last.res = Ok(<<>>)

\* The id K is at one of the rows and, when the listing ids succeeded, once
\* in it; the listing succeeds when all the ids P are UTF-8.
ListedOnce(K, rows, ids, P) ==
    /\ Cardinality({i \in 1..Len(rows) : rows[i][1] = K}) = 1
    /\ (\A J \in P : Utf8Valid(J)) => ids.ok
    /\ ids.ok => Count(ids.val, K) = 1

\* C12: a create under an id that already has a row overwrites it
\* silently: the call returns Ok, a load of the id then returns the new
\* swap, and the id is still listed exactly once by all_swap_ids (which
\* lists when the ids are UTF-8).
C12_OverwriteSilently ==
    [][ (last'.op = "create" /\ last'.key \in PrimaryIds(storage)) =>
            /\ last'.res = Ok(<<>>)
            /\ load(storage', last'.key) = Ok(last'.swap)
            /\ PrimaryIds(storage') = PrimaryIds(storage)
            /\ ListedOnce(last'.key,
                          range_with_prefix(storage', atomic_swaps_read, None),
                          all_swap_ids(storage', None, MaxEntries),
                          PrimaryIds(storage')) ]_vars

\* C12 witness: the id "a" was created under one recipient and then again
\* with a swap of another recipient; the load returns the second swap and
\* the listing holds "a" once.
C12_Witness ==
    /\ last.op = "create" /\ last.res.ok /\ last.key = <<97>>
    /\ \E r \in Recipients \ {last.swap.recipient} : <<r, <<97>>>> \in created
    /\ load(storage, <<97>>) = Ok(last.swap)
    /\ LET ids == all_swap_ids(storage, None, MaxEntries)
       IN  ids.ok /\ Count(ids.val, <<97>>) = 1 /\ Len(ids.val) = 2

\* The byte strings that are part of a Recipient Index key of the store:
\* each recipient, and every tail of each raw key (the id, the recipient
\* with the id, the length-prefixed segments).
IndexKeyParts(st) ==
    LET keys == {k \in DOMAIN st : HasPrefix(k, IndexNamespace)}
    IN  {IndexPair(k)[1] : k \in keys}
          \cup UNION {{SubSeq(k, i, Len(k)) : i \in 1..Len(k)} : k \in keys}

\* C13: a load fails, with the not-found error, exactly when the Primary
\* Table has no row at the id: after any creates load(K) succeeds iff some
\* create(K, _) succeeded, and a byte string that is only part of a
\* Recipient Index key is not loadable.
C13_LoadFailsIffNoRow ==
    /\ last.op = "load" =>
          /\ last.res.ok <=> last.key \in CreatedIds
          /\ last.res.ok <=> last.key \in PrimaryIds(storage)
          /\ ~last.res.ok => last.res = Err("not_found")
    /\ \A K \in IndexKeyParts(storage) \ CreatedIds :
          load(storage, K) = Err("not_found")

\* C13 witness: 0xFF is the recipient of an index entry and the id of no
\* row, "a" is the id of a row; the load of 0xFF failed.
C13_Witness ==
    /\ last.op = "load" /\ last.key = <<255>>
    /\ last.res = Err("not_found")
    /\ <<<<255>>, <<97>>>> \in IndexEntries(storage)
    /\ load(storage, <<97>>).ok

\* The store key of the Recipient Index entry (rec, key), as save composes
\* it: the bucket's prefix, then the raw id.
IndexKey(rec, key) == atomic_swaps_recipient_index(rec) \o key

\* C14: the multi-level namespace is free of collisions: distinct pairs
\* (recipient, id) have distinct store keys (as many keys as pairs), none
\* of them a Primary Table key, and the range of a recipient returns the
\* ids created under that recipient only, also when one recipient is a
\* proper prefix of another or r1 ++ x = r2 ++ y.
C14_NamespaceCollisionFree ==
    /\ LET keys == {IndexKey(p[1], p[2]) : p \in Recipients \X Ids}
       IN  /\ Cardinality(keys) = Cardinality(Recipients \X Ids)
           /\ \A k \in keys : ~HasPrefix(k, atomic_swaps)
    /\ \A r \in Recipients :
          LET ids == recipient_index_ids(storage, r)
          IN  /\ ids.ok
              /\ \A K \in Elements(ids.val) : <<r, K>> \in created
              /\ \A K \in Ids : <<r, K>> \in created => Count(ids.val, K) = 1
    /\ last.op = "recipient_index" =>
          /\ last.res.ok
          /\ Elements(last.res.val) = {K \in Ids : <<last.rec, K>> \in created}

\* C14 witness: "1a" was created under "0" and "a" under "01", so that
\* "0" is a proper prefix of "01" and "0" ++ "1a" = "01" ++ "a"; the range
\* of "0" returned "1a" alone.
C14_Witness ==
    /\ last.op = "recipient_index" /\ last.rec = <<48>>
    /\ last.res = Ok(<< <<49, 97>> >>)
    /\ created = { << <<48>>, <<49, 97>> >>, << <<48, 49>>, <<97>> >> }

\* A create of (K, a) on the store st that left the store st2 with the
\* result res, w being the stores after each of its writes and row the
\* save of its row: a failed row write wrote nothing; a call that returned
\* Ok wrote the row, then the index entry; no store in between or after
\* has an index entry without its row.
RowThenEntry(K, a, w, row, st, st2, res) ==
    /\ ~row.res.ok => (w = <<>> /\ st2 = st /\ res = row.res)
    /\ res.ok =>
          /\ Len(w) = 2
          /\ w[2] = st2
          /\ K \in PrimaryIds(w[1])
          /\ load(w[1], K) = Ok(a)
          /\ IndexEntries(w[1]) = IndexEntries(st)
          /\ IndexEntries(w[2]) = IndexEntries(st) \cup {<<a.recipient, K>>}
    /\ \A i \in 1..Len(w) :
          {e[2] : e \in IndexEntries(w[i])} \subseteq PrimaryIds(w[i])

\* C15: within one create_atomic_swap call the Primary Table write is
\* applied before the Recipient Index write, and a call whose row write
\* fails writes nothing; so neither the store between the two writes nor
\* the store after the call has an index entry (recipient, K) without the
\* row K.
C15_PrimaryBeforeIndex ==
    [][ last'.op = "create" =>
            RowThenEntry(last'.key, last'.swap,
                         create_writes(storage, last'.key, last'.swap),
                         save_swap(storage, last'.key, last'.swap),
                         storage, storage', last'.res) ]_vars

\* C15 witness: the store after the first create: the call wrote the row
\* "a" into the empty store, then the index entry ("0", "a").
C15_Witness ==
    /\ last.op = "create" /\ last.res.ok
    /\ created = {<<<<48>>, <<97>>>>}
    /\ storage = create_writes(EmptyStorage, <<97>>, last.swap)[2]
    /\ IndexEntries(create_writes(EmptyStorage, <<97>>, last.swap)[1]) = {}
    /\ IndexEntries(storage) = {<<<<48>>, <<97>>>>}

\* C16: index marking is idempotent: create_atomic_swap(K, s) called again
\* with the same id and the same swap returns Ok and leaves the whole
\* store, Primary Table and Recipient Index, as the first call left it,
\* and the range of s.recipient still lists K once.
C16_CreateIdempotent ==
    (last.op = "create" /\ last.res.ok) =>
        LET again == create_atomic_swap(storage, last.key, last.swap)
            ids == recipient_index_ids(again.storage, last.swap.recipient)
        IN  /\ again.res = Ok(<<>>)
            /\ again.storage = storage
            /\ storage[IndexKey(last.swap.recipient, last.key)]
                  = to_vec_u64(MARKER_VALUE).val
            /\ ids.ok /\ Count(ids.val, last.key) = 1

\* C16 witness: "ab" was created under "01" next to another row of that
\* recipient; the same create once more leaves the store as it is.
C16_Witness ==
    /\ last.op = "create" /\ last.res.ok
    /\ last.key = <<97, 98>> /\ last.swap.recipient = <<48, 49>>
    /\ Cardinality(PrimaryIds(storage)) = 2
    /\ recipient_index_ids(storage, <<48, 49>>) = Ok(<< <<97>>, <<97, 98>> >>)
    /\ create_atomic_swap(storage, last.key, last.swap).storage = storage

\* A create of (K, a) took the store st to st2 and changed the keys
\* `touched` at most: every other key, row and index entry is as it was.
OnlyTouched(K, a, touched, st, st2) ==
    /\ DOMAIN st2 = DOMAIN st \cup touched
    /\ \A k \in DOMAIN st \ touched : st2[k] = st[k]
    /\ \A J \in PrimaryIds(st) \ {K} : load(st2, J) = load(st, J)
    /\ PrimaryIds(st2) = PrimaryIds(st) \cup {K}
    /\ IndexEntries(st2) = IndexEntries(st) \cup {<<a.recipient, K>>}

\* C17: create_atomic_swap(K, s) changes only the Primary Table row at K
\* and the Recipient Index entry (s.recipient, K): every other row and
\* every other index entry, those of K under other recipients included,
\* is left as it was; all_swap_ids and load change nothing in the store.
C17_CreateFrame ==
    [][ /\ last'.op = "create" =>
              OnlyTouched(last'.key, last'.swap,
                          {atomic_swaps \o last'.key,
                           IndexKey(last'.swap.recipient, last'.key)},
                          storage, storage')
        /\ last'.op \in {"all_swap_ids", "load"} => storage' = storage ]_vars

\* C17 witness: "a" was created under 0xFF and then under "0" next to the
\* row "ab" of 0xFF; the entries (0xFF, "a") and (0xFF, "ab") and the row
\* "ab" are still there.
C17_Witness ==
    /\ last.op = "create" /\ last.key = <<97>>
    /\ last.swap.recipient = <<48>>
    /\ PrimaryIds(storage) = {<<97>>, <<97, 98>>}
    /\ IndexEntries(storage) = {<<<<48>>, <<97>>>>, <<<<255>>, <<97>>>>,
                                <<<<255>>, <<97, 98>>>>}
    /\ load(storage, <<97, 98>>).ok
    /\ load(storage, <<97, 98>>).val.recipient = <<255>>

====
